---- MODULE Spec2Model ----
(***************************************************************************)
(* Model of cmd/stress/analyze_results.py: the report parser               *)
(* (parse_result_file), the three analyses and main.                       *)
(*                                                                         *)
(* A report text is a sequence of symbols.  The literal parts of the       *)
(* regular expressions ("Keys: ", "Deletion completed in ", ...) are       *)
(* single symbols; everything the expressions match with a character      *)
(* class (\w, \d, [\d.], .) is one symbol per character.  Numbers are      *)
(* exact decimals <<mantissa, scale>> (value = mantissa / scale); binary   *)
(* floating-point rounding is not modelled.                                *)
(***************************************************************************)
EXTENDS Integers, Sequences, FiniteSets, TLC

VARIABLES
    dirExists,   \* os.path.exists('results')
    files,       \* path -> [exists, lines]: the report files on disk
    pc,          \* position in main
    idx,         \* index of the candidate the running loader loop is at
    results,     \* the running analysis's local list `results`
    opened,      \* paths given to open(), in order
    entered,     \* analyses called by main, in order
    written,     \* images written by plt.savefig, in order
    stdout,      \* lines printed
    error        \* the exception that left main, if any

vars == <<dirExists, files, pc, idx, results, opened, entered, written, stdout, error>>

---------------------------------------------------------------------------
(* Bounds of the inputs.                                                   *)

MaxLines == 4
MaxFieldLines == 4

---------------------------------------------------------------------------
(* Symbols of a report text.                                               *)

LitRunning == "Running deletion test with pattern: "
LitDeletion == "Deletion completed in "
LitParen == " ("
LitKeysSec == " keys/sec)"
LitKeys == "Keys: "
LitBF == "Branching Factor: "
Newline == "\n"

\* \d
Digit == {"0", "1", "2", "3", "4", "5", "6", "7", "8", "9"}

\* \w, restricted to the letters the inputs use
WordChar == Digit \cup {"a", "b", "c", "e", "m", "s", "_"}

\* [\d.]
DigitDot == Digit \cup {"."}

DigitVal(c) ==
    CASE c = "0" -> 0 [] c = "1" -> 1 [] c = "2" -> 2 [] c = "3" -> 3
      [] c = "4" -> 4 [] c = "5" -> 5 [] c = "6" -> 6 [] c = "7" -> 7
      [] c = "8" -> 8 [] c = "9" -> 9

\* code point order of the characters the inputs use
Ord(c) ==
    CASE c \in Digit -> 48 + DigitVal(c)
      [] c = "." -> 46 [] c = "_" -> 95
      [] c = "a" -> 97 [] c = "b" -> 98 [] c = "c" -> 99 [] c = "e" -> 101
      [] c = "m" -> 109 [] c = "s" -> 115

Min(S) == CHOOSE x \in S : \A y \in S : x <= y
Max(S) == CHOOSE x \in S : \A y \in S : x >= y

---------------------------------------------------------------------------
(* Python built-ins used by the parser.                                    *)

\* int(s) for a string of digits
RECURSIVE int(_)
int(s) ==
    IF s = <<>> THEN 0
    ELSE int(SubSeq(s, 1, Len(s) - 1)) * 10 + DigitVal(s[Len(s)])

RECURSIVE Pow10(_)
Pow10(k) == IF k = 0 THEN 1 ELSE 10 * Pow10(k - 1)

\* float(s) for a string over the digits, '.' and the letters a, b, m, s (the
\* symbols of the report texts): a decimal literal (digits with at most one
\* '.', at least one digit) converts, anything else raises ValueError
\* (ok = FALSE).
float(s) ==
    LET dots   == {i \in 1..Len(s) : s[i] = "."}
        digits == {i \in 1..Len(s) : s[i] \in Digit}
        valid  == /\ dots \cup digits = 1..Len(s)
                  /\ Cardinality(dots) <= 1
                  /\ digits # {}
        mant   == SelectSeq(s, LAMBDA c : c \in Digit)
        frac   == IF dots = {} THEN 0 ELSE Len(s) - Min(dots)
    IN  IF valid THEN [ok |-> TRUE, num |-> int(mant), den |-> Pow10(frac)]
        ELSE [ok |-> FALSE, num |-> 0, den |-> 1]

\* old in s
Contains(s, old) ==
    \E i \in 1..(Len(s) - Len(old) + 1) : SubSeq(s, i, i + Len(old) - 1) = old

\* s.replace(old, '')
RECURSIVE replace(_, _)
replace(s, old) ==
    IF Len(s) < Len(old) THEN s
    ELSE IF SubSeq(s, 1, Len(old)) = old
         THEN replace(SubSeq(s, Len(old) + 1, Len(s)), old)
         ELSE <<s[1]>> \o replace(Tail(s), old)

---------------------------------------------------------------------------
(* Regular expression matching.                                            *)

\* the position after the longest run of symbols of class C that starts at i
RunEnd(t, i, C) ==
    CHOOSE j \in i..(Len(t) + 1) :
        /\ j = Len(t) + 1 \/ t[j] \notin C
        /\ \A h \in i..(j - 1) : t[h] \in C

\* re_search taking the last match instead of the leftmost
re_search_last(lit, t) ==
    LET hits == {i \in 1..(Len(t) - 1) : t[i] = lit /\ t[i + 1] \in Digit}
    IN  IF hits = {} THEN <<>>
        ELSE LET i == Max(hits)
             IN  SubSeq(t, i + 1, RunEnd(t, i + 1, Digit) - 1)

\* re.search(lit + r'(\d+)', t): group 1 of the leftmost match, <<>> for None
re_search(lit, t) ==
    LET hits == {i \in 1..(Len(t) - 1) : t[i] = lit /\ t[i + 1] \in Digit}
    IN  IF hits = {} THEN <<>>
        ELSE LET i == Min(hits)
             IN  SubSeq(t, i + 1, RunEnd(t, i + 1, Digit) - 1)

\* 'Deletion completed in ([\d.]+\w+) \(([\d.]+) keys/sec\)' at position j.
\* KEnds: where [\d.]+ may end (k is the position after it); WEnds: where
\* the \w+ that starts at k may end so that ' (' follows; PEnds: where the
\* [\d.]+ that starts after ' (' may end so that ' keys/sec)' follows.
KEnds(t, j) ==
    IF j <= Len(t) /\ t[j] = LitDeletion
    THEN (j + 2)..RunEnd(t, j + 1, DigitDot)
    ELSE {}

WEnds(t, k) ==
    {w \in (k + 1)..RunEnd(t, k, WordChar) : w <= Len(t) /\ t[w] = LitParen}

PEnds(t, w) ==
    {p \in (w + 2)..RunEnd(t, w + 1, DigitDot) : p <= Len(t) /\ t[p] = LitKeysSec}

\* every way the whole pattern matches at position i: (\w+) ends before n,
\* .*? (DOTALL: any symbols) ends before j, then the tail
Matches(t, i) ==
    IF t[i] # LitRunning THEN {}
    ELSE UNION {UNION {UNION {UNION {
            {[n |-> n, j |-> j, k |-> k, w |-> w, p |-> p] : p \in PEnds(t, w)} :
                w \in WEnds(t, k)} :
                k \in KEnds(t, j)} :
                j \in {h \in n..Len(t) : t[h] = LitDeletion}} :
                n \in (i + 2)..RunEnd(t, i + 1, WordChar)}

\* the order in which the backtracking engine tries the ways: greedy (\w+),
\* lazy .*?, greedy [\d.]+, greedy \w+, greedy [\d.]+
TriedBefore(x, y) ==
    \/ x.n > y.n
    \/ x.n = y.n /\ x.j < y.j
    \/ x.n = y.n /\ x.j = y.j /\ x.k > y.k
    \/ x.n = y.n /\ x.j = y.j /\ x.k = y.k /\ x.w > y.w
    \/ x.n = y.n /\ x.j = y.j /\ x.k = y.k /\ x.w = y.w /\ x.p > y.p

\* the way the engine finds first among the ways ms
FirstTried(ms) == CHOOSE x \in ms : \A y \in ms : y = x \/ TriedBefore(x, y)

\* the groups of the match found at i: [pattern, time_str, keys_per_sec],
\* and the position where the match ends
MatchAt(t, i) ==
    CHOOSE g \in {[pattern |-> SubSeq(t, i + 1, m.n - 1),
                   time_str |-> SubSeq(t, m.j + 1, m.w - 1),
                   keys_per_sec |-> SubSeq(t, m.w + 1, m.p - 1),
                   end |-> m.p + 1] :
                      m \in {FirstTried(ms) : ms \in {Matches(t, i)}}} : TRUE

\* re.findall(..., re.DOTALL) from position pos: the leftmost match, then
\* the scan resumes where the match ended
RECURSIVE findall(_, _)
findall(t, pos) ==
    CHOOSE r \in {IF starts = {} THEN <<>>
                  ELSE CHOOSE q \in {<<g>> \o findall(t, g.end) :
                                        g \in {MatchAt(t, Min(starts))}} : TRUE :
                      starts \in {{h \in pos..Len(t) : Matches(t, h) # {}}}} : TRUE

-----
(* parse_result_file                                                       *)

\* lines 28-33: the time string to seconds
time_to_sec(time_str) ==
    IF Contains(time_str, <<"m", "s">>)
    THEN LET f == float(replace(time_str, <<"m", "s">>))
         IN  [ok |-> f.ok, num |-> f.num, den |-> f.den * 1000]
    ELSE IF Contains(time_str, <<"s">>)
         THEN float(replace(time_str, <<"s">>))
         ELSE float(time_str)

\* lines 26-39: one entry per match; a failed conversion raises
pattern_result(m) ==
    [pattern |-> m.pattern,
     time_sec |-> time_to_sec(m.time_str),
     keys_per_sec |-> float(m.keys_per_sec)]

\* the text f.read() returns: every line followed by a newline
RECURSIVE Content(_)
Content(lines) ==
    IF lines = <<>> THEN <<>>
    ELSE lines[1] \o <<Newline>> \o Content(Tail(lines))

\* int(match.group(1)) if match else 0
int_or_0(group) == IF group # <<>> THEN int(group) ELSE 0

\* [raised, tree_size, branching_factor, pattern_results]; raised stands for
\* the ValueError of a failed float()
parse_result_file(content) ==
    CHOOSE r \in
        {IF \E i \in 1..Len(pattern_results) :
                ~pattern_results[i].time_sec.ok \/ ~pattern_results[i].keys_per_sec.ok
         THEN [raised |-> TRUE, tree_size |-> 0, branching_factor |-> 0,
               pattern_results |-> <<>>]
         ELSE [raised |-> FALSE,
               tree_size |-> int_or_0(re_search(LitKeys, content)),
               branching_factor |-> int_or_0(re_search(LitBF, content)),
               pattern_results |-> pattern_results] :
            pattern_results \in
                {[i \in 1..Len(pattern_sections) |-> pattern_result(pattern_sections[i])] :
                    pattern_sections \in {findall(content, 1)}}} : TRUE

---------------------------------------------------------------------------
(* Aggregation and charts.                                                 *)

\* str < str: lexicographic by code point
RECURSIVE StrLess(_, _)
StrLess(a, b) ==
    IF b = <<>> THEN FALSE
    ELSE IF a = <<>> THEN TRUE
    ELSE IF a[1] = b[1] THEN StrLess(Tail(a), Tail(b))
    ELSE Ord(a[1]) < Ord(b[1])

\* float < float and float == float on exact decimals
NumLess(x, y) == x.num * y.den < y.num * x.den
NumEq(x, y) == x.num * y.den = y.num * x.den

\* lines 64-67: the set of pattern strings of the loaded reports
pattern_set(rs) ==
    UNION {{rs[i].pattern_results[k].pattern : k \in 1..Len(rs[i].pattern_results)} :
              i \in 1..Len(rs)}

\* the patterns left in an order that is not ascending
RECURSIVE unsorted_patterns(_)
unsorted_patterns(S) ==
    IF S = {} THEN <<>>
    ELSE LET m == CHOOSE x \in S : \A y \in S : y = x \/ StrLess(y, x)
         IN  <<m>> \o unsorted_patterns(S \ {m})

\* line 69: sorted(list(patterns))
RECURSIVE sorted_patterns(_)
sorted_patterns(S) ==
    IF S = {} THEN <<>>
    ELSE LET m == CHOOSE x \in S : \A y \in S : y = x \/ StrLess(x, y)
         IN  <<m>> \o sorted_patterns(S \ {m})

\* line 70: plt.cm.tab10(np.linspace(0, 1, n))[i], as the index into the
\* ten-color palette
color_index(i, n) ==
    IF n = 1 THEN 0
    ELSE LET q == (i * 10) \div (n - 1) IN IF q > 9 THEN 9 ELSE q

\* lines 76-79: the points one report adds to a pattern's series
RECURSIVE report_points(_, _, _)
report_points(x, prs, pattern) ==
    IF prs = <<>> THEN <<>>
    ELSE (IF prs[1].pattern = pattern
          THEN <<[x |-> x, y |-> prs[1].keys_per_sec]>>
          ELSE <<>>) \o report_points(x, Tail(prs), pattern)

\* lines 73-79: the series of one pattern over the reports in list order
RECURSIVE series_points(_, _, _)
series_points(rs, pattern, variable) ==
    IF rs = <<>> THEN <<>>
    ELSE report_points(rs[1][variable], rs[1].pattern_results, pattern)
            \o series_points(Tail(rs), pattern, variable)

\* lines 64-80: one labelled, colored line per pattern
line_chart(rs, variable) ==
    LET patterns == sorted_patterns(pattern_set(rs))
    IN  [kind |-> "line",
         series |-> [i \in 1..Len(patterns) |->
                        [label |-> patterns[i],
                         color |-> color_index(i - 1, Len(patterns)),
                         points |-> series_points(rs, patterns[i], variable)]],
         bars |-> <<>>]

\* tuple comparison of (pattern, speed)
PairLess(p, q) ==
    \/ StrLess(p.pattern, q.pattern)
    \/ p.pattern = q.pattern /\ NumLess(p.speed, q.speed)

\* line 156: sorted(zip(patterns, speeds)), a stable sort
RECURSIVE sorted_pairs(_)
sorted_pairs(s) ==
    IF s = <<>> THEN <<>>
    ELSE LET i == Min({a \in 1..Len(s) : \A b \in 1..Len(s) : ~PairLess(s[b], s[a])})
         IN  <<s[i]>> \o sorted_pairs(SubSeq(s, 1, i - 1) \o SubSeq(s, i + 1, Len(s)))

\* bar_chart without the sort of line 156
bar_chart_unsorted(result) ==
    [kind |-> "bar", series |-> <<>>,
     bars |-> [i \in 1..Len(result.pattern_results) |->
                  [pattern |-> result.pattern_results[i].pattern,
                   speed |-> result.pattern_results[i].keys_per_sec]]]

\* lines 148-160: one bar per entry of the sorted list
bar_chart(result) ==
    LET prs == result.pattern_results
        zipped == [i \in 1..Len(prs) |->
                      [pattern |-> prs[i].pattern, speed |-> prs[i].keys_per_sec]]
    IN  [kind |-> "bar", series |-> <<>>, bars |-> sorted_pairs(zipped)]

---------------------------------------------------------------------------
(* File names and candidate values.                                        *)

sizes == <<10000, 100000, 1000000>>
factors == <<16, 64, 256, 1024>>

size_file(size) == <<"results/size_", size, ".txt">>
bf_file(bf) == <<"results/bf_", bf, ".txt">>
patterns_file == <<"results/size_", 1000000, ".txt">>

FileNames == {size_file(sizes[i]) : i \in 1..Len(sizes)}
                \cup {bf_file(factors[i]) : i \in 1..Len(factors)}

TreePng == "results/tree_size_performance.png"
BfPng == "results/branching_factor_performance.png"
PatternPng == "results/pattern_performance.png"

MsgNoDir == "Results directory not found."
MsgNoTree == "No tree size results found."
MsgNoBf == "No branching factor results found."
MsgNoPatternFile == "File results/size_1000000.txt not found."
MsgComplete == "Analysis complete. Graphs saved to results directory."

NoError == [raised |-> FALSE, path |-> <<>>, during |-> ""]
Absent == [exists |-> FALSE, lines |-> <<>>]
File(lines) == [exists |-> TRUE, lines |-> lines]

\* with open(filename) as f: content = f.read(), then the parse
read_and_parse(path) == parse_result_file(Content(files[path].lines))

---------------------------------------------------------------------------
(* main and the three analyses.                                            *)

\* main without the return of line 173
main_no_results_dir_falls_through ==
    /\ pc = "main"
    /\ ~dirExists
    /\ stdout' = Append(stdout, MsgNoDir)
    /\ entered' = Append(entered, "tree_sizes")
    /\ idx' = 1
    /\ results' = <<>>
    /\ pc' = "tree_load"
    /\ UNCHANGED <<dirExists, files, opened, written, error>>

\* lines 171-173
main_no_results_dir ==
    /\ pc = "main"
    /\ ~dirExists
    /\ stdout' = Append(stdout, MsgNoDir)
    /\ pc' = "done"
    /\ UNCHANGED <<dirExists, files, idx, results, opened, entered, written, error>>

\* lines 171, 175, 49-50
main_analyze_tree_sizes ==
    /\ pc = "main"
    /\ dirExists
    /\ entered' = Append(entered, "tree_sizes")
    /\ idx' = 1
    /\ results' = <<>>
    /\ pc' = "tree_load"
    /\ UNCHANGED <<dirExists, files, opened, written, stdout, error>>

\* a loader loop without the os.path.exists test: open() of an absent file
\* raises
LoadStep_no_exists_test(path, last, here, next, during) ==
    IF files[path].exists
    THEN \E r \in {read_and_parse(path)} :
             /\ opened' = Append(opened, path)
             /\ results' = Append(results, r)
             /\ idx' = idx + 1
             /\ pc' = IF last THEN next ELSE here
             /\ UNCHANGED error
    ELSE /\ opened' = Append(opened, path)
         /\ error' = [raised |-> TRUE, path |-> path, during |-> during]
         /\ pc' = "aborted"
         /\ UNCHANGED <<idx, results>>

\* one iteration of a loader loop (lines 52-55, 96-99)
LoadStep(path, last, here, next, during) ==
    IF files[path].exists
    THEN \E r \in {read_and_parse(path)} :
             /\ opened' = Append(opened, path)
             /\ IF r.raised
                THEN /\ error' = [raised |-> TRUE, path |-> path, during |-> during]
                     /\ pc' = "aborted"
                     /\ UNCHANGED <<idx, results>>
                ELSE /\ results' = Append(results, r)
                     /\ idx' = idx + 1
                     /\ pc' = IF last THEN next ELSE here
                     /\ UNCHANGED error
    ELSE /\ idx' = idx + 1
         /\ pc' = IF last THEN next ELSE here
         /\ UNCHANGED <<results, opened, error>>

\* lines 52-55
analyze_tree_sizes_load ==
    /\ pc = "tree_load"
    /\ LoadStep(size_file(sizes[idx]), idx = Len(sizes), "tree_load", "tree_plot", "tree_sizes")
    /\ UNCHANGED <<dirExists, files, entered, written, stdout>>

\* lines 57-59, then main line 176 and lines 93-94
analyze_tree_sizes_none ==
    /\ pc = "tree_plot"
    /\ results = <<>>
    /\ stdout' = Append(stdout, MsgNoTree)
    /\ entered' = Append(entered, "branching_factors")
    /\ idx' = 1
    /\ results' = <<>>
    /\ pc' = "bf_load"
    /\ UNCHANGED <<dirExists, files, opened, written, error>>

tree_size_chart(rs) == line_chart(rs, "tree_size")

\* lines 61-89, then main line 176 and lines 93-94
analyze_tree_sizes_plot ==
    /\ pc = "tree_plot"
    /\ results # <<>>
    /\ written' = Append(written, [path |-> TreePng, chart |-> tree_size_chart(results)])
    /\ entered' = Append(entered, "branching_factors")
    /\ idx' = 1
    /\ results' = <<>>
    /\ pc' = "bf_load"
    /\ UNCHANGED <<dirExists, files, opened, stdout, error>>

\* lines 96-99
analyze_branching_factors_load ==
    /\ pc = "bf_load"
    /\ LoadStep(bf_file(factors[idx]), idx = Len(factors), "bf_load", "bf_plot", "branching_factors")
    /\ UNCHANGED <<dirExists, files, entered, written, stdout>>

\* lines 101-103, then main line 177
analyze_branching_factors_none ==
    /\ pc = "bf_plot"
    /\ results = <<>>
    /\ stdout' = Append(stdout, MsgNoBf)
    /\ entered' = Append(entered, "patterns")
    /\ pc' = "patterns"
    /\ UNCHANGED <<dirExists, files, idx, results, opened, written, error>>

\* the branching-factor chart plotted over the tree size
branching_factor_chart_by_tree_size(rs) == line_chart(rs, "tree_size")

branching_factor_chart(rs) == line_chart(rs, "branching_factor")

\* lines 105-133, then main line 177
analyze_branching_factors_plot ==
    /\ pc = "bf_plot"
    /\ results # <<>>
    /\ written' = Append(written, [path |-> BfPng, chart |-> branching_factor_chart(results)])
    /\ entered' = Append(entered, "patterns")
    /\ pc' = "patterns"
    /\ UNCHANGED <<dirExists, files, idx, results, opened, stdout, error>>

\* lines 138-141
analyze_patterns_missing ==
    /\ pc = "patterns"
    /\ ~files[patterns_file].exists
    /\ stdout' = Append(stdout, MsgNoPatternFile)
    /\ pc' = "complete"
    /\ UNCHANGED <<dirExists, files, idx, results, opened, entered, written, error>>

\* lines 143-167
analyze_patterns_plot ==
    /\ pc = "patterns"
    /\ files[patterns_file].exists
    /\ opened' = Append(opened, patterns_file)
    /\ \E r \in {read_and_parse(patterns_file)} :
           IF r.raised
           THEN /\ error' = [raised |-> TRUE, path |-> patterns_file, during |-> "patterns"]
                /\ pc' = "aborted"
                /\ UNCHANGED written
           ELSE /\ written' = Append(written, [path |-> PatternPng, chart |-> bar_chart(r)])
                /\ pc' = "complete"
                /\ UNCHANGED error
    /\ UNCHANGED <<dirExists, files, idx, results, entered, stdout>>

\* line 179
main_complete ==
    /\ pc = "complete"
    /\ stdout' = Append(stdout, MsgComplete)
    /\ pc' = "done"
    /\ UNCHANGED <<dirExists, files, idx, results, opened, entered, written, error>>

Next ==
    \/ main_no_results_dir
    \/ main_analyze_tree_sizes
    \/ analyze_tree_sizes_load
    \/ analyze_tree_sizes_none
    \/ analyze_tree_sizes_plot
    \/ analyze_branching_factors_load
    \/ analyze_branching_factors_none
    \/ analyze_branching_factors_plot
    \/ analyze_patterns_missing
    \/ analyze_patterns_plot
    \/ main_complete

---------------------------------------------------------------------------
(* Report texts.                                                           *)

Start(name) == <<LitRunning>> \o name
Done(dur, tput) == <<LitDeletion>> \o dur \o <<LitParen>> \o tput \o <<LitKeysSec>>
Keys(n) == <<LitKeys>> \o n
BranchingFactor(n) == <<LitBF>> \o n
OtherLine == <<"-">>

ReportA ==
    <<Keys(<<"1", "0">>), BranchingFactor(<<"1", "6">>),
      Start(<<"b">>), OtherLine, Done(<<"5", "m", "s">>, <<"1">>),
      Start(<<"a">>), Done(<<"1", "5", "s">>, <<"5">>),
      Start(<<"b">>), Done(<<"1", "5">>, <<"1", "5">>)>>

ReportB ==
    <<Keys(<<"5">>), BranchingFactor(<<"6", "4">>),
      Start(<<"a", "b">>), Done(<<"1", ".", "5", "s">>, <<"1", ".", "5">>),
      Start(<<"b">>), Done(<<"5", "m", "s">>, <<"5">>)>>

ReportBad ==
    <<Keys(<<"5">>), BranchingFactor(<<"1", "6">>),
      Start(<<"a">>), Done(<<"5", "m">>, <<"1">>)>>

InitControl ==
    /\ pc = "main"
    /\ idx = 1
    /\ results = <<>>
    /\ opened = <<>>
    /\ entered = <<>>
    /\ written = <<>>
    /\ stdout = <<>>
    /\ error = NoError

\* every subset of the candidate files, each file a good or a malformed
\* report; without the directory there are no files
MainContents == {Absent, File(ReportA), File(ReportBad)}

Init ==
    /\ dirExists \in BOOLEAN
    /\ files \in [FileNames -> MainContents]
    /\ dirExists \/ \A f \in FileNames : files[f] = Absent
    /\ InitControl

Spec == Init /\ [][Next]_vars

\* the same subsets with well-formed reports only: two reports with
\* different, repeated and differently ordered patterns
AggContents == {Absent, File(ReportA), File(ReportB)}

InitAgg ==
    /\ dirExists \in BOOLEAN
    /\ files \in [FileNames -> AggContents]
    /\ dirExists \/ \A f \in FileNames : files[f] = Absent
    /\ InitControl

SpecAgg == InitAgg /\ [][Next]_vars

\* every report text of up to n lines over a set of line forms
Texts(forms, n) == UNION {[1..k -> forms] : k \in 0..n}

\* the files that hold the text under test; the other candidates are absent
TestFiles == {patterns_file, bf_file(16)}

InitText(texts) ==
    /\ dirExists \in BOOLEAN
    /\ \E c \in {Absent} \cup {File(t) : t \in texts} :
          files = [f \in FileNames |-> IF f \in TestFiles /\ dirExists THEN c ELSE Absent]
    /\ InitControl

\* pattern-trial lines: two names, durations in milliseconds, in seconds and
\* bare, with one and with two digits
BlockLines ==
    {Start(<<"a">>), Start(<<"b">>),
     Done(<<"5", "m", "s">>, <<"1">>), Done(<<"1", "5", "s">>, <<"5">>),
     Done(<<"5">>, <<"1", "5">>), Done(<<"1", "5">>, <<"1">>),
     OtherLine}

InitParse == InitText(Texts(BlockLines, MaxLines))

SpecParse == InitParse /\ [][Next]_vars

\* field lines: markers with and without an integer, a trial, a completion
\* line whose duration is not a number
FieldLines ==
    {Keys(<<"5">>), Keys(<<"1", "5">>), Keys(<<>>),
     BranchingFactor(<<"1", "6">>), BranchingFactor(<<"5">>),
     Start(<<"a">>), Done(<<"5", "m", "s">>, <<"1">>), Done(<<"5", "m">>, <<"1">>)}

InitFields == InitText(Texts(FieldLines, MaxFieldLines))

SpecFields == InitFields /\ [][Next]_vars

---------------------------------------------------------------------------
(* What a report says, read line by line.  These definitions do not use    *)
(* the regular expressions: a line is recognised by the literal it starts  *)
(* with, and the meaning of a number is looked up in a table.              *)

IsStart(l) == Len(l) >= 2 /\ l[1] = LitRunning
IsDone(l) == l[1] = LitDeletion
IsMarker(l, lit) == Len(l) >= 2 /\ l[1] = lit /\ l[2] \in Digit

ParenAt(l) == CHOOSE i \in 1..Len(l) : l[i] = LitParen
DurationOf(l) == SubSeq(l, 2, ParenAt(l) - 1)
ThroughputOf(l) == SubSeq(l, ParenAt(l) + 1, Len(l) - 1)

\* the numerals the report texts use, and their values
Numerals ==
    {[tok |-> <<"1">>, num |-> 1, den |-> 1],
     [tok |-> <<"5">>, num |-> 5, den |-> 1],
     [tok |-> <<"1", "0">>, num |-> 10, den |-> 1],
     [tok |-> <<"1", "5">>, num |-> 15, den |-> 1],
     [tok |-> <<"1", "6">>, num |-> 16, den |-> 1],
     [tok |-> <<"6", "4">>, num |-> 64, den |-> 1],
     [tok |-> <<"1", ".", "5">>, num |-> 15, den |-> 10]}

ValueOf(tok) == CHOOSE d \in Numerals : d.tok = tok

\* a duration token is a numeral followed by "ms", by "s" or by nothing
Units == {<<"m", "s">>, <<"s">>, <<>>}
DurationForms == {[tok |-> d.tok \o u, unit |-> u, num |-> d.num, den |-> d.den] :
                     <<d, u>> \in Numerals \X Units}
WellFormedDuration(tok) == \E f \in DurationForms : f.tok = tok
ExpectedSeconds(tok) ==
    CHOOSE v \in {[num |-> f.num, den |-> IF f.unit = <<"m", "s">> THEN f.den * 1000 ELSE f.den] :
                     f \in {x \in DurationForms : x.tok = tok}} : TRUE

\* the pattern-trial blocks of a text, left to right: a start line and the
\* first completion line after it; the next block starts after that line
RECURSIVE TrialBlocks(_, _)
TrialBlocks(lines, from) ==
    IF \A s \in from..Len(lines) : ~IsStart(lines[s]) THEN <<>>
    ELSE CHOOSE r \in
        {IF \A d \in (s + 1)..Len(lines) : ~IsDone(lines[d]) THEN <<>>
         ELSE CHOOSE q \in
            {<<[name |-> Tail(lines[s]),
                dur |-> DurationOf(lines[d]),
                tput |-> ThroughputOf(lines[d])]>> \o TrialBlocks(lines, d + 1) :
                d \in {Min({e \in (s + 1)..Len(lines) : IsDone(lines[e])})}} : TRUE :
            s \in {Min({e \in from..Len(lines) : IsStart(lines[e])})}} : TRUE

SizePaths == [i \in 1..Len(sizes) |-> size_file(sizes[i])]
BfPaths == [i \in 1..Len(factors) |-> bf_file(factors[i])]

\* the candidates among the first n that exist, in candidate order
Present(paths, n) == SelectSeq(SubSeq(paths, 1, n), LAMBDA f : files[f].exists)

InTree == pc \in {"tree_load", "tree_plot"}
InBf == pc \in {"bf_load", "bf_plot"}

\* the files the running loader has passed and found
LoadedPaths ==
    IF InTree THEN Present(SizePaths, idx - 1)
    ELSE IF InBf THEN Present(BfPaths, idx - 1)
    ELSE <<>>

Terminated == pc \in {"done", "aborted"}

WrittenPaths == [n \in 1..Len(written) |-> written[n].path]
Printed(msg) == \E n \in 1..Len(stdout) : stdout[n] = msg

---------------------------------------------------------------------------
(* Claims about parse_result_file.                                         *)

\* C1: every loaded report holds one PatternResult per pattern-trial block
\* of its text, in the order of the blocks, with the block's name, the
\* duration of its completion line in seconds and its throughput.
C1_OneResultPerBlock ==
    \A i \in 1..Len(results) : i <= Len(LoadedPaths) =>
        \A blocks \in {TrialBlocks(files[LoadedPaths[i]].lines, 1)} :
            /\ Len(results[i].pattern_results) = Len(blocks)
            /\ \A k \in 1..Len(blocks) : k <= Len(results[i].pattern_results) =>
                  /\ results[i].pattern_results[k].pattern = blocks[k].name
                  /\ NumEq(results[i].pattern_results[k].time_sec, ExpectedSeconds(blocks[k].dur))
                  /\ NumEq(results[i].pattern_results[k].keys_per_sec, ValueOf(blocks[k].tput))

\* C2: for every block whose duration is a number followed by "ms", by "s"
\* or by nothing, the loaded report holds a PatternResult with the block's
\* name whose time_sec is the number / 1000 for "ms" and the number itself
\* otherwise.
C2_DurationInSeconds ==
    \A i \in 1..Len(results) : i <= Len(LoadedPaths) =>
        \A blocks \in {TrialBlocks(files[LoadedPaths[i]].lines, 1)} :
            \A b \in 1..Len(blocks) : WellFormedDuration(blocks[b].dur) =>
                \E k \in 1..Len(results[i].pattern_results) :
                    /\ results[i].pattern_results[k].pattern = blocks[b].name
                    /\ NumEq(results[i].pattern_results[k].time_sec, ExpectedSeconds(blocks[b].dur))

\* the lines of a text that hold the marker lit with an integer
MarkerLines(lines, lit) == {n \in 1..Len(lines) : IsMarker(lines[n], lit)}

\* the integer of the first such line, 0 when there is none
FirstMarker(lines, lit) ==
    IF MarkerLines(lines, lit) = {} THEN 0
    ELSE ValueOf(Tail(lines[Min(MarkerLines(lines, lit))])).num

\* C3: a loaded report has tree_size 0 when its text has no "Keys: <integer>"
\* line and the integer of the first such line otherwise, the same for
\* branching_factor and "Branching Factor: <integer>", and no pattern
\* results when the text has no pattern-trial block; and a parse fails only
\* on a text with a completion line whose duration is not a number.
C3_MissingFieldsDefault ==
    /\ \A i \in 1..Len(results) : i <= Len(LoadedPaths) =>
          \A lines \in {files[LoadedPaths[i]].lines} :
              /\ results[i].tree_size = FirstMarker(lines, LitKeys)
              /\ results[i].branching_factor = FirstMarker(lines, LitBF)
              /\ TrialBlocks(lines, 1) = <<>> => results[i].pattern_results = <<>>
    /\ error.raised =>
          \E n \in 1..Len(files[error.path].lines) :
              /\ IsDone(files[error.path].lines[n])
              /\ ~WellFormedDuration(DurationOf(files[error.path].lines[n]))

\* a text with two "Keys: <integer>" lines of different values, no
\* "Branching Factor:" line and no block has been loaded
C3_Witness ==
    /\ pc = "bf_plot"
    /\ Len(results) = 1
    /\ \A lines \in {files[bf_file(16)].lines} :
          /\ Cardinality({lines[n] : n \in MarkerLines(lines, LitKeys)}) = 2
          /\ MarkerLines(lines, LitBF) = {}
          /\ TrialBlocks(lines, 1) = <<>>
    /\ results[1].branching_factor = 0

---------------------------------------------------------------------------
(* Claims about the loaders.                                               *)

\* C4: at every point of a loader loop the loaded list holds exactly the
\* parsed reports of the candidates passed so far that exist, in candidate
\* order; the files opened are those files; and no error comes from an
\* absent file.
C4_LoadsPresentFilesInOrder ==
    /\ InTree \/ InBf =>
          /\ Len(results) = Len(LoadedPaths)
          /\ Len(results) = Cardinality({n \in 1..(idx - 1) :
                                files[IF InTree THEN SizePaths[n] ELSE BfPaths[n]].exists})
          /\ \A i \in 1..Len(results) : results[i] = read_and_parse(LoadedPaths[i])
    /\ InTree => opened = LoadedPaths
    /\ InBf => opened = Present(SizePaths, Len(SizePaths)) \o LoadedPaths
    /\ error.raised => files[error.path].exists

\* the tree-size loader has finished with the middle candidate absent and
\* the other two loaded
C4_Witness ==
    /\ pc = "tree_plot"
    /\ ~files[size_file(100000)].exists
    /\ Len(results) = 2
    /\ opened = <<size_file(10000), size_file(1000000)>>

---------------------------------------------------------------------------
(* Claims about the series and the charts.                                 *)

\* the reports an analysis loads, parsed one by one
ReportsOf(paths) ==
    CHOOSE rs \in {[i \in 1..Len(ps) |-> read_and_parse(ps[i])] :
                      ps \in {Present(paths, Len(paths))}} : TRUE

ChartReports(w) == IF w.path = TreePng THEN ReportsOf(SizePaths) ELSE ReportsOf(BfPaths)
ChartVariable(w) == IF w.path = TreePng THEN "tree_size" ELSE "branching_factor"

\* every trial of every report, report after report, as (x, pattern, y)
RECURSIVE AllTrials(_, _)
AllTrials(rs, variable) ==
    IF rs = <<>> THEN <<>>
    ELSE [k \in 1..Len(rs[1].pattern_results) |->
              [x |-> rs[1][variable],
               pattern |-> rs[1].pattern_results[k].pattern,
               y |-> rs[1].pattern_results[k].keys_per_sec]]
         \o AllTrials(Tail(rs), variable)

\* the trials of one pattern, as points
TrialPoints(trials, label) ==
    CHOOSE pts \in {[k \in 1..Len(sel) |-> [x |-> sel[k].x, y |-> sel[k].y]] :
                       sel \in {SelectSeq(trials, LAMBDA e : e.pattern = label)}} : TRUE

RECURSIVE TotalPoints(_)
TotalPoints(series) ==
    IF series = <<>> THEN 0 ELSE Len(series[1].points) + TotalPoints(Tail(series))

Labels(chart) == [i \in 1..Len(chart.series) |-> chart.series[i].label]
Colors(chart) == [i \in 1..Len(chart.series) |-> chart.series[i].color]
LabelSet(chart) == {chart.series[i].label : i \in 1..Len(chart.series)}

LineCharts == {n \in 1..Len(written) : written[n].chart.kind = "line"}
BarCharts == {n \in 1..Len(written) : written[n].chart.kind = "bar"}

\* C5: in a written line chart the series of a pattern holds one point
\* (independent variable of the report, keys_per_sec) per trial with that
\* pattern, by report in loader order and by occurrence inside a report,
\* and the series together hold as many points as the reports hold trials.
C5_OnePointPerTrial ==
    \A n \in LineCharts :
        \A trials \in {AllTrials(ChartReports(written[n]), ChartVariable(written[n]))} :
            /\ \A i \in 1..Len(written[n].chart.series) :
                  written[n].chart.series[i].points
                      = TrialPoints(trials, written[n].chart.series[i].label)
            /\ TotalPoints(written[n].chart.series) = Len(trials)

\* the branching-factor chart of two reports is written: one pattern has
\* more points than there are reports, another fewer
C5_Witness ==
    \E n \in LineCharts :
        /\ written[n].path = BfPng
        /\ Len(ChartReports(written[n])) = 2
        /\ \E i, j \in 1..Len(written[n].chart.series) :
              /\ Len(written[n].chart.series[i].points) > 2
              /\ Len(written[n].chart.series[j].points) < 2

\* C6: the series of a written line chart are labelled by the distinct
\* patterns of the loaded reports in strictly ascending order, and two
\* charts over the same set of patterns have the same order of series and
\* the same colors.
C6_CanonicalPatternOrder ==
    /\ \A n \in LineCharts :
          /\ \A trials \in {AllTrials(ChartReports(written[n]), "tree_size")} :
                LabelSet(written[n].chart) = {trials[k].pattern : k \in 1..Len(trials)}
          /\ \A i \in 1..(Len(written[n].chart.series) - 1) :
                StrLess(written[n].chart.series[i].label, written[n].chart.series[i + 1].label)
    /\ \A n, m \in LineCharts :
          LabelSet(written[n].chart) = LabelSet(written[m].chart) =>
              /\ Labels(written[n].chart) = Labels(written[m].chart)
              /\ Colors(written[n].chart) = Colors(written[m].chart)

\* both line charts are written, over the same three patterns, from the
\* same two reports loaded in opposite orders
C6_Witness ==
    /\ files[size_file(10000)] = File(ReportA)
    /\ files[size_file(100000)] = File(ReportB)
    /\ files[size_file(1000000)] = Absent
    /\ files[bf_file(16)] = File(ReportB)
    /\ files[bf_file(64)] = File(ReportA)
    /\ Cardinality(LineCharts) = 2
    /\ \A n \in LineCharts : Len(written[n].chart.series) = 3

\* the (pattern, speed) pairs of a parsed report
PatternTrials(r) ==
    [k \in 1..Len(r.pattern_results) |->
        [pattern |-> r.pattern_results[k].pattern,
         speed |-> r.pattern_results[k].keys_per_sec]]

Count(seq, e) == Cardinality({k \in 1..Len(seq) : seq[k] = e})

\* C7 as stated: the pattern chart has exactly one bar per distinct pattern
\* of the report the pattern analysis reads, in ascending order of pattern
\* name.
C7_OneBarPerPattern ==
    \A n \in BarCharts :
        \A trials \in {PatternTrials(read_and_parse(patterns_file))} :
            /\ {written[n].chart.bars[k].pattern : k \in 1..Len(written[n].chart.bars)}
                  = {trials[k].pattern : k \in 1..Len(trials)}
            /\ Len(written[n].chart.bars)
                  = Cardinality({trials[k].pattern : k \in 1..Len(trials)})
            /\ \A k \in 1..(Len(written[n].chart.bars) - 1) :
                  ~StrLess(written[n].chart.bars[k + 1].pattern, written[n].chart.bars[k].pattern)

\* C7 as amended: the pattern chart has exactly one bar per trial of the
\* report (a pattern with several trials has several bars), in ascending
\* order of pattern name and, for one pattern, of throughput.
C7_OneBarPerTrial ==
    \A n \in BarCharts :
        \A trials \in {PatternTrials(read_and_parse(patterns_file))} :
            /\ Len(written[n].chart.bars) = Len(trials)
            /\ \A k \in 1..Len(trials) :
                  Count(written[n].chart.bars, trials[k]) = Count(trials, trials[k])
            /\ \A k \in 1..(Len(written[n].chart.bars) - 1) :
                  /\ ~StrLess(written[n].chart.bars[k + 1].pattern, written[n].chart.bars[k].pattern)
                  /\ written[n].chart.bars[k + 1].pattern = written[n].chart.bars[k].pattern =>
                        ~NumLess(written[n].chart.bars[k + 1].speed, written[n].chart.bars[k].speed)

\* the pattern chart of a report with two trials of one pattern is written
C7_Witness ==
    \E n \in BarCharts :
        \E j, k \in 1..Len(written[n].chart.bars) :
            j # k /\ written[n].chart.bars[j].pattern = written[n].chart.bars[k].pattern

---------------------------------------------------------------------------
(* Claims about main.                                                      *)

Analyses == <<"tree_sizes", "branching_factors", "patterns">>
Position(a) == CHOOSE i \in 1..Len(Analyses) : Analyses[i] = a

InputPaths(a) ==
    IF a = "tree_sizes" THEN SizePaths
    ELSE IF a = "branching_factors" THEN BfPaths
    ELSE <<patterns_file>>

Artifact(a) ==
    IF a = "tree_sizes" THEN TreePng
    ELSE IF a = "branching_factors" THEN BfPng
    ELSE PatternPng

NoDataMessage(a) ==
    IF a = "tree_sizes" THEN MsgNoTree
    ELSE IF a = "branching_factors" THEN MsgNoBf
    ELSE MsgNoPatternFile

HasInput(a) == \E i \in 1..Len(InputPaths(a)) : files[InputPaths(a)[i]].exists

\* every present input file of the analysis converts
WellFormedInput(a) ==
    \A i \in 1..Len(InputPaths(a)) :
        files[InputPaths(a)[i]].exists => ~read_and_parse(InputPaths(a)[i]).raised

Wrote(path) == \E n \in 1..Len(written) : written[n].path = path

\* C8: when a conversion fails in one analysis, the analyses after it that
\* have well-formed input still write their charts and the run ends with
\* the completion message.
C8_FailureStaysLocal ==
    Terminated /\ error.raised =>
        /\ Printed(MsgComplete)
        /\ \A i \in 1..Len(Analyses) :
              (/\ i > Position(error.during)
               /\ HasInput(Analyses[i])
               /\ WellFormedInput(Analyses[i])) => Wrote(Artifact(Analyses[i]))

\* C9: whatever files are present, a run with the results directory enters
\* the three analyses in order, an analysis without input prints its
\* diagnostic and writes nothing, an analysis with input writes its own
\* image and nothing else, and the run ends with the completion message.
C9_EveryAnalysisRuns ==
    Terminated /\ dirExists =>
        /\ entered = Analyses
        /\ WrittenPaths = SelectSeq([i \in 1..Len(Analyses) |-> Artifact(Analyses[i])],
                                    LAMBDA png : \E i \in 1..Len(Analyses) :
                                        Artifact(Analyses[i]) = png /\ HasInput(Analyses[i]))
        /\ \A i \in 1..Len(Analyses) :
              ~HasInput(Analyses[i]) <=> Printed(NoDataMessage(Analyses[i]))
        /\ stdout # <<>>
        /\ stdout[Len(stdout)] = MsgComplete

\* C10: without the results directory main prints the diagnostic and
\* returns: nothing is opened, no analysis is entered, nothing is written
\* and the completion message is not printed.
C10_NoDirectoryNoWork ==
    ~dirExists =>
        /\ opened = <<>>
        /\ entered = <<>>
        /\ written = <<>>
        /\ ~Printed(MsgComplete)
        /\ pc \in {"main", "done"}
        /\ pc = "done" => stdout = <<MsgNoDir>>

\* main has returned without the results directory
C10_Witness == ~dirExists /\ pc = "done" /\ stdout = <<MsgNoDir>>

====
